---- MODULE Spec2Model ----
(***************************************************************************)
(* Offer / dispatch engine of EasyTaxi-serveur (src/main.py).              *)
(*                                                                         *)
(* The three SQLite tables the engine uses are the state: drivers (in      *)
(* rowid order), jobs (keyed by id) and job_declines (the decline ledger). *)
(* Time is the UTC clock in seconds; it advances in steps of TickSec.      *)
(* A point is a (latitude, longitude) pair on one meridian, numbered by    *)
(* its latitude step; point 0 is (0, 0).  On a meridian haversine_km is    *)
(* R * |dphi|, i.e. linear in the number of steps between two points.      *)
(*                                                                         *)
(* Spec     : every HTTP handler runs to completion as one action.         *)
(* RaceSpec : accept_offer, decline_offer and get_offers run statement by  *)
(*            statement, each on its own worker thread, interleaved.       *)
(***************************************************************************)
EXTENDS Integers, Sequences, FiniteSets, TLC

\* ---------------------------------------------------------------- bounds
MaxJobs == 3          \* job rows ever inserted
MaxRoots == 1         \* job chains ever started
MaxTicks == 1         \* clock ticks
MaxUpdates == 3       \* update_location and register_push_token requests
MaxThreads == 2       \* worker threads busy at once (RaceSpec)
RaceUpdates == 2      \* update_location requests (RaceSpec)
WideRoots == 2        \* job chains ever started (WideSpec)
WideUpdates == 2      \* update_location requests (WideSpec)

TickSec == 120        \* seconds per clock tick
KmPerStep == 20       \* great-circle km between neighbouring points

Drivers == {"A", "B", "C"}
Points == {0, 1}
\* the bodies of send-job-auto-offer requests: customer data and pickup point
Bodies == {[customer |-> "c1", pickup |-> 0], [customer |-> "c2", pickup |-> 1]}
\* the bodies of update-location requests
Reports == {r \in [driver_id : Drivers, pos : Points, status : {"online", "offline"}] :
                r.status = "offline" => r.pos = 0}
JobIds == 1..(MaxJobs + 1)
AgeInputs == {0, 60}        \* max_age_sec of a request (0: take the default)
RadiusInputs == {0, 10}     \* max_radius_km of a request (0: take the default)
TtlInputs == {0, 60}        \* offer_ttl_sec of a request (0: take the default)
Tokens == {"t1", "t2"}      \* expo_push_token of a request
PostOutcomes == {"ok", "raises"}   \* requests.post answers, or raises

\* ------------------------------------------------------- program constants
NULL == -1                  \* SQL NULL / Python None in a numeric column
DefaultMaxAge == 120
DefaultRadius == 50
DefaultTtl == 180
NoToken == ""               \* expo_push_token NULL: no token registered

VARIABLES
    now,        \* datetime.utcnow(), seconds
    drivers,    \* table drivers: sequence of rows in rowid order
    jobs,       \* table jobs: function id -> row
    ledger,     \* table job_declines: set of rows
    nextId,     \* number of uuid4 job ids drawn so far, plus one
    nUpdates,   \* update_location requests served
    history,    \* every job row ever inserted, deleted or not:
                \*   id -> [root_job_id, driver_id, parent]
                \*   parent: the row it was redistributed from (0: none)
    done,       \* <<handler, job id>>: the accepts and declines answered 200,
                \*   and the rows a get_offers found expired and redistributed
    threads     \* RaceSpec: the request each worker thread is serving

vars == <<now, drivers, jobs, ledger, nextId, nUpdates, history, done, threads>>

\* ------------------------------------------------------------------ utils

\* Fault: the value is taken as given, 0 included.
OrDefault_keep(x, d) == x

\* Python's "x or default" on a number
OrDefault(x, d) == IF x = NULL \/ x = 0 THEN d ELSE x

Abs(x) == IF x < 0 THEN -x ELSE x

haversine_km(p, q) == KmPerStep * Abs(q - p)

\* Fault: the deadline is never looked at.
is_offer_expired_never(offer_expires_at, t) == FALSE

is_offer_expired(offer_expires_at, t) ==
    IF offer_expires_at = NULL THEN FALSE ELSE t > offer_expires_at

\* Fault: the ledger is not consulted.
get_declined_driver_ids_none(led, root_job_id) == {}

get_declined_driver_ids(led, root_job_id) ==
    {e.driver_id : e \in {x \in led : x.root_job_id = root_job_id}}

\* Fault: INSERT OR REPLACE, the entry is rewritten with the new time.
mark_declined_replace(led, root_job_id, driver_id, t) ==
    {e \in led : ~(e.root_job_id = root_job_id /\ e.driver_id = driver_id)}
        \cup {[root_job_id |-> root_job_id, driver_id |-> driver_id, declined_at |-> t]}

\* INSERT OR IGNORE on the primary key (root_job_id, driver_id)
mark_declined(led, root_job_id, driver_id, t) ==
    IF \E e \in led : e.root_job_id = root_job_id /\ e.driver_id = driver_id
    THEN led
    ELSE led \cup {[root_job_id |-> root_job_id, driver_id |-> driver_id,
                    declined_at |-> t]}

\* Fault: the row's own id is taken for its root.
RootOf_own_id(r) == r.id

\* str(r["root_job_id"] or r["id"])
RootOf(r) == IF r.root_job_id = NULL THEN r.id ELSE r.root_job_id

DriverIndex(drv, d) ==
    IF \E i \in 1..Len(drv) : drv[i].id = d
    THEN CHOOSE i \in 1..Len(drv) : drv[i].id = d
    ELSE 0

\* INSERT ... ON CONFLICT(id) DO UPDATE of update_location
UpsertLocation(drv, d, pos, status, t) ==
    LET i == DriverIndex(drv, d)
    IN  IF i = 0
        THEN Append(drv, [id |-> d, pos |-> pos, status |-> status, updated_at |-> t,
                          expo_push_token |-> NoToken])
        ELSE [drv EXCEPT ![i] = [@ EXCEPT !.pos = pos, !.status = status,
                                          !.updated_at = t]]

\* Fault: the upsert of register_push_token also resets the position columns.
UpsertToken_resets(drv, d, token, t) ==
    LET i == DriverIndex(drv, d)
        row == [id |-> d, pos |-> 0, status |-> "offline", updated_at |-> t,
                expo_push_token |-> token]
    IN  IF i = 0 THEN Append(drv, row) ELSE [drv EXCEPT ![i] = row]

\* INSERT ... VALUES (?, 0, 0, 'offline', ?, ?) ON CONFLICT(id) DO UPDATE SET
\* expo_push_token of register_push_token
UpsertToken(drv, d, token, t) ==
    LET i == DriverIndex(drv, d)
    IN  IF i = 0
        THEN Append(drv, [id |-> d, pos |-> 0, status |-> "offline", updated_at |-> t,
                          expo_push_token |-> token])
        ELSE [drv EXCEPT ![i] = [@ EXCEPT !.expo_push_token = token]]

\* Fault: the exception of requests.post is not caught.
send_push_notification_propagates(token, post) ==
    IF post = "raises" THEN "raised" ELSE "returned"

\* try: requests.post(...) except Exception: print(...).  The call returns
\* whether the post answered or raised.
send_push_notification(token, post) == "returned"

\* ---------------------------------------------------------------- job core

NoPick == [driver_id |-> "", distance_km |-> NULL, updated_at |-> NULL]

\* Fault: the comparison of line 401 reversed.
Nearer_reversed(d, best) == best = NoPick \/ d > best.distance_km

\* the test of line 401
Nearer(d, best) == best = NoPick \/ d < best.distance_km

\* the skip tests of lines 383-399
Skipped(r, d, t, max_age_sec, max_radius_km, exclude) ==
    \/ r.id \in exclude
    \/ r.pos = NULL
    \/ r.updated_at = NULL
    \/ (t - r.updated_at) > OrDefault(max_age_sec, DefaultMaxAge)
    \/ d > OrDefault(max_radius_km, DefaultRadius)

RECURSIVE PickLoop(_, _, _, _, _, _, _, _)
PickLoop(rows, i, best, t, pickup, max_age_sec, max_radius_km, exclude) ==
    IF i > Len(rows) THEN best
    ELSE LET r == rows[i]
             d == haversine_km(pickup, r.pos)
             nb == IF Skipped(r, d, t, max_age_sec, max_radius_km, exclude) THEN best
                   ELSE IF Nearer(d, best)
                        THEN [driver_id |-> r.id, distance_km |-> d,
                              updated_at |-> r.updated_at]
                        ELSE best
         IN  PickLoop(rows, i + 1, nb, t, pickup, max_age_sec, max_radius_km, exclude)

OnlineRows(drv) == SelectSeq(drv, LAMBDA r : r.status = "online")

\* Fault: a driver who holds an offered row is passed over.
_pick_nearest_online_driver_idle(drv, t, pickup, max_age_sec, max_radius_km, exclude) ==
    PickLoop(OnlineRows(drv), 1, NoPick, t, pickup, max_age_sec, max_radius_km,
             exclude \cup {jobs[j].driver_id : j \in
                               {k \in DOMAIN jobs : jobs[k].status = "offered"}})

_pick_nearest_online_driver(drv, t, pickup, max_age_sec, max_radius_km, exclude) ==
    PickLoop(OnlineRows(drv), 1, NoPick, t, pickup, max_age_sec, max_radius_km, exclude)

\* The database as the job core sees it: the jobs table, the ledger, the
\* next fresh id, and the record of the rows inserted.
DB == [jobs |-> jobs, ledger |-> ledger, nextId |-> nextId, history |-> history]

\* f extended (or overwritten) at k
Put(f, k, v) == [x \in (DOMAIN f) \cup {k} |-> IF x = k THEN v ELSE f[x]]

\* Inserts the row; the new id is db.nextId.  root = NULL: the job is its own root.
_create_job_and_notify(db, driver_id, customer, pickup, status, offer_ttl_sec, root_job_id, t) ==
    LET job_id == db.nextId
        root == IF root_job_id = NULL THEN job_id ELSE root_job_id
        exp == IF status = "offered"
               THEN t + OrDefault(offer_ttl_sec, DefaultTtl)
               ELSE NULL
        row == [id |-> job_id, driver_id |-> driver_id, customer |-> customer,
                pickup |-> pickup, status |-> status,
                offer_expires_at |-> exp, root_job_id |-> root]
    IN  [db EXCEPT !.jobs = Put(@, job_id, row),
                   !.nextId = job_id + 1,
                   !.history = Put(@, job_id, [root_job_id |-> root,
                                               driver_id |-> driver_id,
                                               parent |-> 0])]

\* Fault: redistribution takes a driver however old the position report.
RedistributionPick_any_age(led, drv, t, job_row, max_age_sec, max_radius_km) ==
    _pick_nearest_online_driver(drv, t, job_row.pickup,
        (MaxTicks + 3) * TickSec,
        OrDefault(max_radius_km, DefaultRadius),
        get_declined_driver_ids(led, RootOf(job_row)))

\* Lines 416-427: the ledger is read, then the drivers.
RedistributionPick(led, drv, t, job_row, max_age_sec, max_radius_km) ==
    _pick_nearest_online_driver(drv, t, job_row.pickup,
        OrDefault(max_age_sec, DefaultMaxAge),
        OrDefault(max_radius_km, DefaultRadius),
        get_declined_driver_ids(led, RootOf(job_row)))

\* Fault: the new offer starts a chain of its own (root_job_id not passed on).
RedistributionInsert_own_root(db, t, job_row, pick, offer_ttl_sec) ==
    LET created == _create_job_and_notify(db, pick.driver_id, job_row.customer,
                       job_row.pickup, "offered",
                       OrDefault(offer_ttl_sec, DefaultTtl), NULL, t)
    IN  [created EXCEPT !.history[db.nextId].parent = job_row.id]

\* Lines 429-440: the new offer for the driver picked.
RedistributionInsert(db, t, job_row, pick, offer_ttl_sec) ==
    LET created == _create_job_and_notify(db, pick.driver_id, job_row.customer,
                       job_row.pickup, "offered",
                       OrDefault(offer_ttl_sec, DefaultTtl), RootOf(job_row), t)
    IN  [created EXCEPT !.history[db.nextId].parent = job_row.id]

\* Result: the database afterwards and the new offer's id (NULL: none).
_redistribute_offer_from_job(db, drv, t, job_row, max_age_sec, max_radius_km, offer_ttl_sec) ==
    IF job_row.pickup = NULL THEN [db |-> db, redistributed |-> NULL]
    ELSE LET pick == RedistributionPick(db.ledger, drv, t, job_row, max_age_sec,
                                        max_radius_km)
         IN  IF pick = NoPick THEN [db |-> db, redistributed |-> NULL]
             ELSE [db |-> RedistributionInsert(db, t, job_row, pick, offer_ttl_sec),
                   redistributed |-> db.nextId]

\* Fault: the UPDATE clears the deadline and leaves the status.
SetStatus_deadline_only(jbs, job_id, status) ==
    IF job_id \in DOMAIN jbs
    THEN [jbs EXCEPT ![job_id] = [@ EXCEPT !.offer_expires_at = NULL]]
    ELSE jbs

\* Fault: the UPDATE sets the status and leaves the deadline.
SetStatus_keeps_deadline(jbs, job_id, status) ==
    IF job_id \in DOMAIN jbs
    THEN [jbs EXCEPT ![job_id] = [@ EXCEPT !.status = status]]
    ELSE jbs

\* UPDATE jobs SET status = ?, offer_expires_at = NULL WHERE id = ?
SetStatus(jbs, job_id, status) ==
    IF job_id \in DOMAIN jbs
    THEN [jbs EXCEPT ![job_id] = [@ EXCEPT !.status = status,
                                           !.offer_expires_at = NULL]]
    ELSE jbs

\* DELETE FROM jobs WHERE id = ?
DeleteRow(jbs, job_id) == [j \in (DOMAIN jbs) \ {job_id} |-> jbs[j]]

RECURSIVE DescSeq(_)
DescSeq(S) ==
    IF S = {} THEN <<>>
    ELSE LET m == CHOOSE x \in S : \A y \in S : y <= x
         IN  <<m>> \o DescSeq(S \ {m})

\* SELECT * FROM jobs WHERE driver_id = ? AND status = 'offered'
\* ORDER BY created_at DESC.  Ids are numbered in the order they are drawn, so
\* a later created_at is a larger id: the id stands for created_at.
SelectOffers(jbs, driver_id) ==
    LET ids == {j \in DOMAIN jbs : jbs[j].driver_id = driver_id
                                   /\ jbs[j].status = "offered"}
        s == DescSeq(ids)
    IN  [i \in 1..Len(s) |-> jbs[s[i]]]

\* Fault: the driver is not entered in the ledger.
DeclineAndRedistribute_unmarked(db, drv, t, r, driver_id) ==
    _redistribute_offer_from_job([db EXCEPT !.jobs = SetStatus(@, r.id, "declined")],
                                 drv, t, r, DefaultMaxAge, DefaultRadius, DefaultTtl)

\* Lines 585-598, 674-686: the row is entered in the ledger, set to declined
\* and redistributed with the fixed limits.
DeclineAndRedistribute(db, drv, t, r, driver_id) ==
    LET db1 == [db EXCEPT !.ledger = mark_declined(@, RootOf(r), driver_id, t)]
        db2 == [db1 EXCEPT !.jobs = SetStatus(@, r.id, "declined")]
    IN  _redistribute_offer_from_job(db2, drv, t, r,
                                     DefaultMaxAge, DefaultRadius, DefaultTtl)

\* The loop of get_offers over the rows it read.
RECURSIVE OffersLoop(_, _, _, _, _, _)
OffersLoop(rows, i, db, offers, drv, t) ==
    IF i > Len(rows) THEN [db |-> db, offers |-> offers]
    ELSE LET r == rows[i]
         IN  IF is_offer_expired(r.offer_expires_at, t)
             THEN OffersLoop(rows, i + 1,
                             DeclineAndRedistribute(db, drv, t, r, r.driver_id).db,
                             offers, drv, t)
             ELSE OffersLoop(rows, i + 1, db, Append(offers, r.id), drv, t)

\* ------------------------------------------------ handlers, as functions
\* Each handler maps the database it finds (and the drivers table and the
\* clock) to the database it leaves and the response it sends:
\*   code           HTTP status (200, 403, 404, 409, 410)
\*   redistributed  the id of the offer redistribution created, or NULL
\*   offers         get_offers: the ids of the offers returned, in order

Result(db, code, redistributed, offers) ==
    [db |-> db, code |-> code, redistributed |-> redistributed, offers |-> offers]

send_job_auto_offer(db, drv, t, body, max_age_sec, max_radius_km, offer_ttl_sec) ==
    LET pick == _pick_nearest_online_driver(drv, t, body.pickup,
                    OrDefault(max_age_sec, DefaultMaxAge),
                    OrDefault(max_radius_km, DefaultRadius), {})
    IN  IF pick = NoPick THEN Result(db, 404, NULL, <<>>)
        ELSE Result(_create_job_and_notify(db, pick.driver_id, body.customer,
                        body.pickup, "offered",
                        OrDefault(offer_ttl_sec, DefaultTtl), NULL, t),
                    200, NULL, <<>>)

get_offers(db, drv, t, driver_id) ==
    LET out == OffersLoop(SelectOffers(db.jobs, driver_id), 1, db, <<>>, drv, t)
    IN  Result(out.db, 200, NULL, out.offers)

\* POST /jobs: a row in status new for the driver named, with no pickup point
create_job(db, driver_id, customer, t) ==
    Result(_create_job_and_notify(db, driver_id, customer, NULL, "new", NULL, NULL, t),
           200, NULL, <<>>)

\* Fault: the status filter is missing.
get_jobs_any_status(jbs, driver_id) ==
    DescSeq({j \in DOMAIN jbs : jbs[j].driver_id = driver_id})

\* SELECT * FROM jobs WHERE driver_id = ? AND status NOT IN ('offered',
\* 'declined') ORDER BY created_at DESC: the ids of the rows returned
get_jobs(jbs, driver_id) ==
    DescSeq({j \in DOMAIN jbs : /\ jbs[j].driver_id = driver_id
                                /\ jbs[j].status \notin {"offered", "declined"}})

\* Fault: the driver is tested before the status.
Precondition_driver_first(jbs, job_id, driver_id) ==
    IF job_id \notin DOMAIN jbs THEN 404
    ELSE IF jbs[job_id].driver_id # driver_id THEN 403
    ELSE IF jbs[job_id].status # "offered" THEN 409
    ELSE 0

\* Fault: the status test (409) is missing.
Precondition_no_status(jbs, job_id, driver_id) ==
    IF job_id \notin DOMAIN jbs THEN 404
    ELSE IF jbs[job_id].driver_id # driver_id THEN 403
    ELSE 0

\* The tests of lines 629-639 and 662-672 on the row read: 0 when they pass.
Precondition(jbs, job_id, driver_id) ==
    IF job_id \notin DOMAIN jbs THEN 404
    ELSE IF jbs[job_id].status # "offered" THEN 409
    ELSE IF jbs[job_id].driver_id # driver_id THEN 403
    ELSE 0

accept_offer(db, t, job_id, driver_id) ==
    LET code == Precondition(db.jobs, job_id, driver_id)
    IN  IF code # 0 THEN Result(db, code, NULL, <<>>)
        ELSE LET r == db.jobs[job_id]
             IN  IF is_offer_expired(r.offer_expires_at, t)
                 THEN Result([db EXCEPT
                                 !.ledger = mark_declined(@, RootOf(r), r.driver_id, t),
                                 !.jobs = SetStatus(@, job_id, "declined")],
                             410, NULL, <<>>)
                 ELSE Result([db EXCEPT !.jobs = SetStatus(@, job_id, "new")],
                             200, NULL, <<>>)

\* Fault: the refusal is recorded before the driver of the request is tested.
decline_offer_any_driver(db, drv, t, job_id, driver_id) ==
    LET code == Precondition_no_status(db.jobs, job_id, driver_id)
    IN  IF code = 404 \/ db.jobs[job_id].status # "offered"
        THEN Result(db, IF code = 404 THEN 404 ELSE 409, NULL, <<>>)
        ELSE LET red == DeclineAndRedistribute(db, drv, t, db.jobs[job_id], driver_id)
             IN  Result(IF code = 403 THEN [db EXCEPT !.ledger = red.db.ledger]
                                      ELSE red.db,
                        IF code = 403 THEN 403 ELSE 200,
                        IF code = 403 THEN NULL ELSE red.redistributed, <<>>)

decline_offer(db, drv, t, job_id, driver_id) ==
    LET code == Precondition(db.jobs, job_id, driver_id)
    IN  IF code # 0 THEN Result(db, code, NULL, <<>>)
        ELSE LET red == DeclineAndRedistribute(db, drv, t, db.jobs[job_id], driver_id)
             IN  Result(red.db, 200, red.redistributed, <<>>)

\* Fault: the row is treated as a refusal whatever its status.
delete_job_any_status(db, drv, t, job_id) ==
    IF job_id \notin DOMAIN db.jobs THEN Result(db, 404, NULL, <<>>)
    ELSE LET row == db.jobs[job_id]
             red == _redistribute_offer_from_job(
                        [db EXCEPT !.ledger =
                            mark_declined(@, RootOf(row), row.driver_id, t)],
                        drv, t, row, DefaultMaxAge, DefaultRadius, DefaultTtl)
         IN  Result([red.db EXCEPT !.jobs = DeleteRow(@, job_id)],
                    200, red.redistributed, <<>>)

delete_job(db, drv, t, job_id) ==
    IF job_id \notin DOMAIN db.jobs THEN Result(db, 404, NULL, <<>>)
    ELSE LET row == db.jobs[job_id]
             red == IF row.status \in {"new", "accepted"} /\ row.pickup # NULL
                    THEN _redistribute_offer_from_job(
                             [db EXCEPT !.ledger =
                                 mark_declined(@, RootOf(row), row.driver_id, t)],
                             drv, t, row, DefaultMaxAge, DefaultRadius, DefaultTtl)
                    ELSE [db |-> db, redistributed |-> NULL]
         IN  Result([red.db EXCEPT !.jobs = DeleteRow(@, job_id)],
                    200, red.redistributed, <<>>)

\* Lines 340-359 of _create_job_and_notify, after the commit: the token of the
\* driver is looked up and, when there is one, the notification is sent.
NotifyDriver(drv, driver_id, post) ==
    LET i == DriverIndex(drv, driver_id)
    IN  IF i # 0 /\ drv[i].expo_push_token # NoToken
        THEN send_push_notification(drv[i].expo_push_token, post)
        ELSE "returned"

\* The response of a handler that took the database from db0 to out.db, with
\* the notifications of the rows it inserted: an exception that leaves
\* _create_job_and_notify makes the response a 500.  The tables stay as the
\* commits left them.  The requests' actions leave the notification out: it
\* writes no table.
Notified(out, db0, drv, post) ==
    IF \E n \in DOMAIN out.db.history \ DOMAIN db0.history :
           NotifyDriver(drv, out.db.history[n].driver_id, post) = "raised"
    THEN [out EXCEPT !.code = 500]
    ELSE out

\* ------------------------------------------------------------- bookkeeping

Roots(hist) == {j \in DOMAIN hist : hist[j].root_job_id = j}

\* writes the database back
Commit(db) ==
    /\ db.nextId <= MaxJobs + 1
    /\ jobs' = db.jobs
    /\ ledger' = db.ledger
    /\ nextId' = db.nextId
    /\ history' = db.history

\* notes an accept or decline answered 200
Answered(handler, job_id, code) ==
    done' = IF code = 200 THEN done \cup {<<handler, job_id>>} ELSE done

Idle == [op |-> "idle"]

Init ==
    /\ now = 0
    /\ drivers = <<>>
    /\ jobs = <<>>
    /\ ledger = {}
    /\ nextId = 1
    /\ nUpdates = 0
    /\ history = <<>>
    /\ done = {}
    /\ threads = [i \in 1..MaxThreads |-> Idle]

\* ------------------------------------------------- requests, run to completion

Tick ==
    /\ now < MaxTicks * TickSec
    /\ now' = now + TickSec
    /\ UNCHANGED <<drivers, jobs, ledger, nextId, nUpdates, history, done, threads>>

UpdateLocation(driver_id, pos, status) ==
    /\ nUpdates < MaxUpdates
    /\ nUpdates' = nUpdates + 1
    /\ drivers' = UpsertLocation(drivers, driver_id, pos, status, now)
    /\ UNCHANGED <<now, jobs, ledger, nextId, history, done, threads>>

SendJobAutoOffer(body, max_age_sec, max_radius_km, offer_ttl_sec) ==
    /\ Cardinality(Roots(history)) < MaxRoots
    /\ Commit(send_job_auto_offer(DB, drivers, now, body, max_age_sec,
                                  max_radius_km, offer_ttl_sec).db)
    /\ UNCHANGED <<now, drivers, nUpdates, done, threads>>

GetOffers(driver_id) ==
    LET rows == SelectOffers(jobs, driver_id)
    IN  /\ Commit(get_offers(DB, drivers, now, driver_id).db)
        /\ done' = done \cup {<<"get_offers", rows[i].id>> : i \in
                        {k \in 1..Len(rows) :
                            is_offer_expired(rows[k].offer_expires_at, now)}}
        /\ UNCHANGED <<now, drivers, nUpdates, threads>>

AcceptOffer(job_id, driver_id) ==
    LET out == accept_offer(DB, now, job_id, driver_id)
    IN  /\ Commit(out.db)
        /\ Answered("accept_offer", job_id, out.code)
        /\ UNCHANGED <<now, drivers, nUpdates, threads>>

DeclineOffer(job_id, driver_id) ==
    LET out == decline_offer(DB, drivers, now, job_id, driver_id)
    IN  /\ Commit(out.db)
        /\ Answered("decline_offer", job_id, out.code)
        /\ UNCHANGED <<now, drivers, nUpdates, threads>>

DeleteJob(job_id) ==
    /\ Commit(delete_job(DB, drivers, now, job_id).db)
    /\ UNCHANGED <<now, drivers, nUpdates, done, threads>>

Next ==
    \/ Tick
    \/ \E r \in Reports : UpdateLocation(r.driver_id, r.pos, r.status)
    \/ \E b \in Bodies, a \in AgeInputs, r \in RadiusInputs, ttl \in TtlInputs :
           SendJobAutoOffer(b, a, r, ttl)
    \/ \E d \in Drivers : GetOffers(d)
    \/ \E j \in JobIds, d \in Drivers : AcceptOffer(j, d)
    \/ \E j \in JobIds, d \in Drivers : DeclineOffer(j, d)
    \/ \E j \in JobIds : DeleteJob(j)

Spec == Init /\ [][Next]_vars

\* WideSpec: two chains and rows without a pickup point (create_job), with
\* fewer position reports.
CreateJob(driver_id, customer) ==
    /\ Cardinality(Roots(history)) < WideRoots
    /\ Commit(create_job(DB, driver_id, customer, now).db)
    /\ UNCHANGED <<now, drivers, nUpdates, done, threads>>

WideSendJobAutoOffer(body, max_age_sec, max_radius_km, offer_ttl_sec) ==
    /\ Cardinality(Roots(history)) < WideRoots
    /\ Commit(send_job_auto_offer(DB, drivers, now, body, max_age_sec,
                                  max_radius_km, offer_ttl_sec).db)
    /\ UNCHANGED <<now, drivers, nUpdates, done, threads>>

WideUpdateLocation(driver_id, pos, status) ==
    /\ nUpdates < WideUpdates
    /\ status = "online"
    /\ UpdateLocation(driver_id, pos, status)

WideNext ==
    \/ Tick
    \/ \E r \in Reports : WideUpdateLocation(r.driver_id, r.pos, r.status)
    \/ CreateJob("A", "c1")
    \/ \E b \in Bodies, ttl \in TtlInputs : WideSendJobAutoOffer(b, 0, 0, ttl)
    \/ \E d \in Drivers : GetOffers(d)
    \/ \E j \in JobIds, d \in Drivers : AcceptOffer(j, d)
    \/ \E j \in JobIds, d \in Drivers : DeclineOffer(j, d)
    \/ \E j \in JobIds : DeleteJob(j)

WideSpec == Init /\ [][WideNext]_vars

\* NotifySpec: one chain, with push tokens.
RegisterPushToken(driver_id, expo_push_token) ==
    /\ nUpdates < MaxUpdates
    /\ nUpdates' = nUpdates + 1
    /\ drivers' = UpsertToken(drivers, driver_id, expo_push_token, now)
    /\ UNCHANGED <<now, jobs, ledger, nextId, history, done, threads>>

NotifyUpdateLocation(driver_id, pos, status) ==
    /\ status = "online"
    /\ UpdateLocation(driver_id, pos, status)

NotifyNext ==
    \/ Tick
    \/ \E r \in Reports : NotifyUpdateLocation(r.driver_id, r.pos, r.status)
    \/ \E d \in {"A", "B"}, tok \in Tokens : RegisterPushToken(d, tok)
    \/ \E b \in Bodies, ttl \in TtlInputs : SendJobAutoOffer(b, 0, 0, ttl)
    \/ \E d \in Drivers : GetOffers(d)
    \/ \E j \in JobIds, d \in Drivers : AcceptOffer(j, d)
    \/ \E j \in JobIds, d \in Drivers : DeclineOffer(j, d)
    \/ \E j \in JobIds : DeleteJob(j)

NotifySpec == Init /\ [][NotifyNext]_vars

\* PickSpec: the drivers table and the clock alone, the whole input of
\* _pick_nearest_online_driver besides its arguments
PickNext ==
    \/ Tick
    \/ \E r \in Reports : UpdateLocation(r.driver_id, r.pos, r.status)

PickSpec == Init /\ [][PickNext]_vars

\* ------------------------------------------- requests, statement by statement
\* RaceSpec: accept_offer, decline_offer and get_offers each run on a worker
\* thread (FastAPI serves "def" handlers from a thread pool).  A step is one
\* SQL transaction, or one reading of the clock.  A thread keeps what it read:
\*   rows  the rows its SELECT returned (accept, decline: the one row)
\*   i     the row of rows it is working on
\*   pick  the driver redistribution picked

Thread(op, pc, job_id, driver_id, rows, i, pick, offers) ==
    [op |-> op, pc |-> pc, job_id |-> job_id, driver_id |-> driver_id,
     rows |-> rows, i |-> i, pick |-> pick, offers |-> offers]

At(i, op, pc) == threads[i] # Idle /\ threads[i].op \in op /\ threads[i].pc = pc

\* thread i can take a request; the pool hands out its threads in order
Free(i) == threads[i] = Idle /\ \A k \in 1..(i - 1) : threads[k] # Idle

\* the thread after it has finished with rows[i]: the next row of get_offers'
\* loop, or the response
AfterRow(th) ==
    IF th.op = "get_offers" /\ th.i < Len(th.rows)
    THEN [th EXCEPT !.i = @ + 1, !.pc = "clock", !.pick = NoPick]
    ELSE Idle

\* what finishing with rows[i] adds to done
NotedAfterRow(th) ==
    IF th.op = "accept_offer" THEN {} ELSE {<<th.op, th.rows[th.i].id>>}

\* lines 627-639 / 660-672: SELECT and the tests on the row
StartAcceptOrDecline(i, op, job_id, driver_id) ==
    /\ Free(i)
    /\ threads' = [threads EXCEPT ![i] =
           IF Precondition(jobs, job_id, driver_id) # 0 THEN Idle
           ELSE Thread(op, IF op = "accept_offer" THEN "clock" ELSE "mark",
                       job_id, driver_id, <<jobs[job_id]>>, 1, NoPick, <<>>)]
    /\ UNCHANGED <<now, drivers, jobs, ledger, nextId, nUpdates, history, done>>

\* lines 571-580: SELECT of the driver's offers
StartGetOffers(i, driver_id) ==
    /\ Free(i)
    /\ LET rows == SelectOffers(jobs, driver_id)
       IN  threads' = [threads EXCEPT ![i] =
               IF rows = <<>> THEN Idle
               ELSE Thread("get_offers", "clock", 0, driver_id, rows, 1, NoPick, <<>>)]
    /\ UNCHANGED <<now, drivers, jobs, ledger, nextId, nUpdates, history, done>>

\* lines 584 / 641: is_offer_expired reads the clock
ReadClock(i) ==
    /\ At(i, {"accept_offer", "get_offers"}, "clock")
    /\ LET th == threads[i]
           r == th.rows[th.i]
       IN  threads' = [threads EXCEPT ![i] =
               IF is_offer_expired(r.offer_expires_at, now)
               THEN [th EXCEPT !.pc = "mark"]
               ELSE IF th.op = "accept_offer" THEN [th EXCEPT !.pc = "set_new"]
               ELSE AfterRow([th EXCEPT !.offers = Append(@, r.id)])]
    /\ UNCHANGED <<now, drivers, jobs, ledger, nextId, nUpdates, history, done>>

\* lines 586 / 643 / 675: mark_declined, a transaction of its own
MarkDeclined(i) ==
    /\ At(i, {"accept_offer", "decline_offer", "get_offers"}, "mark")
    /\ LET th == threads[i]
           r == th.rows[th.i]
       IN  /\ ledger' = mark_declined(ledger, RootOf(r),
                            IF th.op = "decline_offer" THEN th.driver_id
                            ELSE r.driver_id, now)
           /\ threads' = [threads EXCEPT ![i] = [th EXCEPT !.pc = "set_declined"]]
    /\ UNCHANGED <<now, drivers, jobs, nextId, nUpdates, history, done>>

\* lines 589-590 / 644-647 / 677-679: UPDATE ... status='declined', commit;
\* accept_offer answers 410 here
SetDeclined(i) ==
    /\ At(i, {"accept_offer", "decline_offer", "get_offers"}, "set_declined")
    /\ LET th == threads[i]
       IN  /\ jobs' = SetStatus(jobs, th.rows[th.i].id, "declined")
           /\ threads' = [threads EXCEPT ![i] =
                  IF th.op = "accept_offer" THEN Idle ELSE [th EXCEPT !.pc = "pick"]]
    /\ UNCHANGED <<now, drivers, ledger, nextId, nUpdates, history, done>>

\* lines 649-652: UPDATE ... status='new', commit; accept_offer answers 200
SetNew(i) ==
    /\ At(i, {"accept_offer"}, "set_new")
    /\ jobs' = SetStatus(jobs, threads[i].job_id, "new")
    /\ done' = done \cup {<<"accept_offer", threads[i].job_id>>}
    /\ threads' = [threads EXCEPT ![i] = Idle]
    /\ UNCHANGED <<now, drivers, ledger, nextId, nUpdates, history>>

\* lines 411-427: redistribution reads the ledger and the drivers; with no
\* pick it is over
Pick(i) ==
    /\ At(i, {"decline_offer", "get_offers"}, "pick")
    /\ LET th == threads[i]
           r == th.rows[th.i]
           pick == IF r.pickup = NULL THEN NoPick
                   ELSE RedistributionPick(ledger, drivers, now, r,
                                           DefaultMaxAge, DefaultRadius)
       IN  IF pick = NoPick
           THEN /\ threads' = [threads EXCEPT ![i] = AfterRow(th)]
                /\ done' = done \cup NotedAfterRow(th)
           ELSE /\ threads' = [threads EXCEPT ![i] =
                                  [th EXCEPT !.pc = "insert", !.pick = pick]]
                /\ UNCHANGED done
    /\ UNCHANGED <<now, drivers, jobs, ledger, nextId, nUpdates, history>>

\* lines 429-440: the INSERT of the new offer
Insert(i) ==
    /\ At(i, {"decline_offer", "get_offers"}, "insert")
    /\ LET th == threads[i]
       IN  /\ Commit(RedistributionInsert(DB, now, th.rows[th.i], th.pick, DefaultTtl))
           /\ threads' = [threads EXCEPT ![i] = AfterRow(th)]
           /\ done' = done \cup NotedAfterRow(th)
    /\ UNCHANGED <<now, drivers, nUpdates>>

RaceNext ==
    \/ Tick
    \/ \E r \in Reports :
           /\ nUpdates < RaceUpdates
           /\ nextId = 1
           /\ r.status = "online"
           /\ r.pos = 0
           /\ UpdateLocation(r.driver_id, r.pos, r.status)
    \/ \E b \in Bodies, ttl \in TtlInputs : SendJobAutoOffer(b, 0, 0, ttl)
    \/ \E i \in 1..MaxThreads, j \in JobIds, d \in Drivers :
           StartAcceptOrDecline(i, "accept_offer", j, d)
    \/ \E i \in 1..MaxThreads, j \in JobIds, d \in Drivers :
           StartAcceptOrDecline(i, "decline_offer", j, d)
    \/ \E i \in 1..MaxThreads, d \in Drivers : StartGetOffers(i, d)
    \/ \E i \in 1..MaxThreads : ReadClock(i)
    \/ \E i \in 1..MaxThreads : MarkDeclined(i)
    \/ \E i \in 1..MaxThreads : SetDeclined(i)
    \/ \E i \in 1..MaxThreads : SetNew(i)
    \/ \E i \in 1..MaxThreads : Pick(i)
    \/ \E i \in 1..MaxThreads : Insert(i)

RaceSpec == Init /\ [][RaceNext]_vars

\* ------------------------------------------------------------------ claims

Pairs(led) == {<<e.root_job_id, e.driver_id>> : e \in led}

DeclinedFor(led, root) == {p[2] : p \in {q \in Pairs(led) : q[1] = root}}

Registered(drv) == {drv[i].id : i \in 1..Len(drv)}

RowOf(drv, d) == drv[DriverIndex(drv, d)]

DistanceKm(drv, d, pickup) == KmPerStep * Abs(RowOf(drv, d).pos - pickup)

\* the drivers a selection may return: online, seen within max_age_sec, within
\* max_radius_km of the pickup point, not excluded
Eligible(drv, t, pickup, max_age_sec, max_radius_km, exclude) ==
    {d \in Registered(drv) \ exclude :
        /\ RowOf(drv, d).status = "online"
        /\ RowOf(drv, d).pos # NULL
        /\ t - RowOf(drv, d).updated_at <= max_age_sec
        /\ DistanceKm(drv, d, pickup) <= max_radius_km}

RowsOfRoot(hist, root) == {j \in DOMAIN hist : hist[j].root_job_id = root}

\* C1: no driver is ever assigned two job rows with the same root_job_id; when
\* a row is created by redistribution, every driver offered that root before is
\* in the root's ledger, and the driver picked is not.
C1_NoDriverOfferedSameRootTwice ==
    [][ /\ \A i, j \in DOMAIN history' :
              (i # j /\ history'[i].root_job_id = history'[j].root_job_id)
                  => history'[i].driver_id # history'[j].driver_id
        /\ \A n \in (DOMAIN history') \ (DOMAIN history) :
              history'[n].parent # 0 =>
                  /\ history'[n].driver_id
                         \notin DeclinedFor(ledger', history'[n].root_job_id)
                  /\ \A i \in RowsOfRoot(history, history'[n].root_job_id) :
                         history[i].driver_id
                             \in DeclinedFor(ledger', history'[n].root_job_id)
      ]_vars

\* C1 witness: driver a declined root 1 at time 0 and reported a new position
\* afterwards; it is online, fresh and at distance 0 from the pickup point when
\* driver b's row of the same root is declined in turn, and the root has no row
\* beyond those two.
C1_Witness ==
    \E a, b \in Drivers :
        /\ a # b
        /\ [root_job_id |-> 1, driver_id |-> a, declined_at |-> 0] \in ledger
        /\ [root_job_id |-> 1, driver_id |-> b, declined_at |-> now] \in ledger
        /\ RowsOfRoot(history, 1) = {1, 2}
        /\ history[1].driver_id = a /\ history[2].driver_id = b
        /\ 2 \in DOMAIN jobs /\ jobs[2].status = "declined"
        /\ a \in Eligible(drivers, now, jobs[2].pickup, DefaultMaxAge, DefaultRadius, {})
        /\ RowOf(drivers, a).updated_at > 0
        /\ DistanceKm(drivers, a, jobs[2].pickup) = 0

C3_AcceptOnlyLiveOffer ==
    /\ [](\A j \in JobIds, d \in Drivers :
             LET out == accept_offer(DB, now, j, d)
             IN  out.code = 200 =>
                    /\ j \in DOMAIN jobs
                    /\ jobs[j].status = "offered"
                    /\ jobs[j].driver_id = d
                    /\ jobs[j].offer_expires_at # NULL
                    /\ now <= jobs[j].offer_expires_at
                    /\ out.db.jobs[j].status = "new"
                    /\ out.db.jobs[j].offer_expires_at = NULL)
    /\ [][ /\ \A j \in (DOMAIN jobs) \cap (DOMAIN jobs') :
                 jobs[j].status # "offered" => jobs'[j].status # "offered"
           /\ \A j \in (DOMAIN jobs') \ (DOMAIN jobs) : j \notin DOMAIN history
         ]_vars

\* C3 witness: an offer was accepted, its row reads new with no deadline, and
\* the clock has ticked.
C3_Witness ==
    \E j \in DOMAIN jobs :
        /\ <<"accept_offer", j>> \in done
        /\ jobs[j].status = "new"
        /\ jobs[j].offer_expires_at = NULL
        /\ now > 0

\* C7: once a decline or an accept of a job was answered 200, a further decline
\* or accept of that job by the same driver is answered 409 or 404 and changes
\* neither the jobs table nor the ledger.
C7_SecondCallRejected ==
    \A j \in DOMAIN history :
        LET d == history[j].driver_id
            acc == accept_offer(DB, now, j, d)
            dec == decline_offer(DB, drivers, now, j, d)
        IN  (<<"accept_offer", j>> \in done \/ <<"decline_offer", j>> \in done)
                => /\ acc.code \in {404, 409} /\ acc.db = DB
                   /\ dec.code \in {404, 409} /\ dec.db = DB

\* C7 witness: row 1 was declined by its driver, row 2 accepted by its driver;
\* both rows are still in the table.
C7_Witness ==
    /\ <<"decline_offer", 1>> \in done
    /\ <<"accept_offer", 2>> \in done
    /\ {1, 2} \subseteq DOMAIN jobs

PickInputs ==
    [pickup : Points, max_age_sec : {60, DefaultMaxAge},
     max_radius_km : {10, DefaultRadius}, exclude : SUBSET Drivers]

\* C8: the driver _pick_nearest_online_driver returns is online, fresh, within
\* the radius and not excluded, at the distance reported, and no such driver is
\* nearer; it returns none exactly when there is no such driver.
C8_PickIsNearestEligible ==
    \A in \in PickInputs :
        LET pick == _pick_nearest_online_driver(drivers, now, in.pickup,
                        in.max_age_sec, in.max_radius_km, in.exclude)
            elig == Eligible(drivers, now, in.pickup, in.max_age_sec,
                             in.max_radius_km, in.exclude)
        IN  /\ (pick = NoPick) <=> (elig = {})
            /\ pick # NoPick =>
                  /\ pick.driver_id \in elig
                  /\ pick.distance_km = DistanceKm(drivers, pick.driver_id, in.pickup)
                  /\ \A e \in elig : DistanceKm(drivers, e, in.pickup) >= pick.distance_km

\* C8 witness: three drivers are online and fresh; with one of them excluded,
\* the pick is the nearer of the two that remain, and it is not the first of
\* them in the table.
C8_Witness ==
    \E in \in PickInputs :
        LET pick == _pick_nearest_online_driver(drivers, now, in.pickup,
                        in.max_age_sec, in.max_radius_km, in.exclude)
            all == Eligible(drivers, now, in.pickup, in.max_age_sec,
                            in.max_radius_km, {})
            elig == all \ in.exclude
        IN  /\ Cardinality(all) = 3 /\ Cardinality(elig) = 2
            /\ pick # NoPick
            /\ \E e \in elig : /\ DistanceKm(drivers, e, in.pickup) > pick.distance_km
                               /\ DriverIndex(drivers, e)
                                      < DriverIndex(drivers, pick.driver_id)
            /\ \E x \in in.exclude : x \in all

\* the rows redistribution inserted from row j
Children(hist, j) == {n \in DOMAIN hist : hist[n].parent = j}

\* the driver may decline row j: it exists, is offered, and is the driver's
Declinable(j, d) ==
    j \in DOMAIN jobs /\ jobs[j].status = "offered" /\ jobs[j].driver_id = d

\* C9: decline_offer succeeds exactly on an offered row of the calling driver,
\* whatever its deadline; it then adds (root, driver) to the ledger, sets the
\* row declined with no deadline, leaves the other rows alone, and, with the
\* root's whole ledger excluded, inserts one row with a new id, the same root,
\* customer and pickup, offered to a nearest eligible driver; with no eligible
\* driver it inserts nothing.
C9_DeclineRedistributesOnce ==
    \A j \in JobIds, d \in Drivers :
        LET out == decline_offer(DB, drivers, now, j, d)
        IN  /\ (out.code = 200) <=> Declinable(j, d)
            /\ Declinable(j, d) =>
                 LET r == jobs[j]
                     excl == DeclinedFor(out.db.ledger, r.root_job_id)
                     elig == Eligible(drivers, now, r.pickup, DefaultMaxAge,
                                      DefaultRadius, excl)
                     new == DOMAIN out.db.jobs \ DOMAIN jobs
                 IN  /\ ledger \subseteq out.db.ledger
                     /\ Pairs(out.db.ledger) = Pairs(ledger) \cup {<<r.root_job_id, d>>}
                     /\ out.db.jobs[j] = [r EXCEPT !.status = "declined",
                                                   !.offer_expires_at = NULL]
                     /\ \A k \in DOMAIN jobs \ {j} :
                            k \in DOMAIN out.db.jobs /\ out.db.jobs[k] = jobs[k]
                     /\ IF elig = {}
                        THEN new = {} /\ out.redistributed = NULL
                        ELSE \E n \in new :
                               LET row == out.db.jobs[n]
                               IN  /\ new = {n}
                                   /\ n \notin DOMAIN history
                                   /\ out.redistributed = n
                                   /\ row.id = n
                                   /\ row.root_job_id = r.root_job_id
                                   /\ row.customer = r.customer
                                   /\ row.pickup = r.pickup
                                   /\ row.status = "offered"
                                   /\ row.offer_expires_at = now + DefaultTtl
                                   /\ row.driver_id \in elig
                                   /\ \A e \in elig :
                                          DistanceKm(drivers, e, r.pickup)
                                            >= DistanceKm(drivers, row.driver_id, r.pickup)

\* C9 witness: a driver declines its offer after the deadline has passed, two
\* other drivers are eligible at different distances, and the new row goes to
\* the nearer one, which is not the first of them in the table.
C9_Witness ==
    \E j \in DOMAIN jobs :
        LET r == jobs[j]
            out == decline_offer(DB, drivers, now, j, r.driver_id)
            elig == Eligible(drivers, now, r.pickup, DefaultMaxAge, DefaultRadius,
                             DeclinedFor(out.db.ledger, r.root_job_id))
        IN  /\ r.status = "offered"
            /\ is_offer_expired(r.offer_expires_at, now)
            /\ out.code = 200
            /\ out.redistributed # NULL
            /\ Cardinality(elig) = 2
            /\ \E e \in elig :
                  /\ DistanceKm(drivers, e, r.pickup)
                       > DistanceKm(drivers, out.db.jobs[out.redistributed].driver_id,
                                    r.pickup)
                  /\ DriverIndex(drivers, e)
                       < DriverIndex(drivers, out.db.jobs[out.redistributed].driver_id)

\* C4 (the code does not keep it): a row that accept_offer answered 200 for
\* and that reads status new was not also expired by get_offers, with its
\* driver in the root's ledger and a row redistributed from it.
C4_AcceptOrExpiryNotBoth ==
    \A j \in DOMAIN jobs :
        (<<"accept_offer", j>> \in done /\ jobs[j].status = "new")
            => ~ /\ <<"get_offers", j>> \in done
                 /\ <<RootOf(jobs[j]), jobs[j].driver_id>> \in Pairs(ledger)
                 /\ Children(history, j) # {}

\* C5 (the code does not keep it): a row that a decline_offer and an expiry in
\* get_offers both worked on has one ledger entry for its driver and was
\* redistributed at most once.
C5_DeclineAndExpiryRedistributeOnce ==
    \A j \in DOMAIN history :
        (<<"decline_offer", j>> \in done /\ <<"get_offers", j>> \in done)
            => /\ Cardinality({e \in ledger :
                      /\ e.root_job_id = history[j].root_job_id
                      /\ e.driver_id = history[j].driver_id}) <= 1
               /\ Cardinality(Children(history, j)) <= 1

\* the sweep interval of the specification's expiry sweeper, in seconds
SweepIntervalSec == 2

\* C6 (the code does not keep it): no row is still offered more than one sweep
\* interval after its deadline.
C6_ExpiredOfferIsSwept ==
    \A j \in DOMAIN jobs :
        jobs[j].status = "offered"
            => now <= jobs[j].offer_expires_at + SweepIntervalSec

\* C10 (the code does not keep it): when a decline, or an expiry in get_offers,
\* finds no eligible driver to redistribute to, the request is answered 200 and
\* a row of the root reads status unassigned.
C10_EmptyPoolRecordsUnassigned ==
    \A j \in DOMAIN jobs :
        LET r == jobs[j]
            elig == Eligible(drivers, now, r.pickup, DefaultMaxAge, DefaultRadius,
                             DeclinedFor(ledger, r.root_job_id) \cup {r.driver_id})
            dec == decline_offer(DB, drivers, now, j, r.driver_id)
            exp == get_offers(DB, drivers, now, r.driver_id)
            Unassigned(db) == \E k \in DOMAIN db.jobs :
                                 /\ db.jobs[k].root_job_id = r.root_job_id
                                 /\ db.jobs[k].status = "unassigned"
        IN  (r.status = "offered" /\ elig = {})
               => /\ dec.code = 200 /\ Unassigned(dec.db)
                  /\ is_offer_expired(r.offer_expires_at, now)
                        => (exp.code = 200 /\ Unassigned(exp.db))

\* C11 (the code does not keep it): accept_offer by the assigned driver on an
\* offered row past its deadline answers 410, enters (root, driver) in the
\* ledger, sets the row declined, and leaves the jobs table and the ledger as
\* decline_offer would: the same redistribution.
C11_ExpiredAcceptIsExpiry ==
    \A j \in DOMAIN jobs :
        LET r == jobs[j]
            acc == accept_offer(DB, now, j, r.driver_id)
            dec == decline_offer(DB, drivers, now, j, r.driver_id)
        IN  (r.status = "offered" /\ is_offer_expired(r.offer_expires_at, now))
               => /\ acc.code = 410
                  /\ <<RootOf(r), r.driver_id>> \in Pairs(acc.db.ledger)
                  /\ acc.db.jobs[j].status = "declined"
                  /\ acc.db.jobs = dec.db.jobs
                  /\ acc.db.ledger = dec.db.ledger

\* the redistribution of row r took db0 to db1: with the root's ledger of db1
\* excluded, one row with a new id, r's root, customer and pickup, offered to
\* a nearest eligible driver; with no eligible driver, no row
RedistributedOnce(db0, db1, r, result) ==
    LET elig == Eligible(drivers, now, r.pickup, DefaultMaxAge, DefaultRadius,
                         DeclinedFor(db1.ledger, RootOf(r)))
        new == DOMAIN db1.jobs \ DOMAIN db0.jobs
    IN  IF elig = {}
        THEN new = {} /\ result = NULL
        ELSE \E n \in new :
               LET row == db1.jobs[n]
               IN  /\ new = {n}
                   /\ n \notin DOMAIN db0.history
                   /\ result = n
                   /\ row = [id |-> n, driver_id |-> row.driver_id,
                             customer |-> r.customer, pickup |-> r.pickup,
                             status |-> "offered",
                             offer_expires_at |-> now + DefaultTtl,
                             root_job_id |-> RootOf(r)]
                   /\ row.driver_id \in elig
                   /\ \A e \in elig : DistanceKm(drivers, e, r.pickup)
                                        >= DistanceKm(drivers, row.driver_id, r.pickup)

\* delete_job treats row r as a refusal by its driver
ImplicitDecline(r) == r.status \in {"new", "accepted"} /\ r.pickup # NULL

\* C12: delete_job of an unknown id answers 404 and changes nothing; of a row
\* in status new or accepted with a pickup point it enters (root, driver) in
\* the ledger, redistributes once with the root's ledger excluded, and removes
\* the row; of any other row it removes the row and adds neither a ledger
\* entry nor a row.  No other row changes.
C12_DeleteJobImplicitDecline ==
    \A j \in JobIds :
        LET out == delete_job(DB, drivers, now, j)
        IN  IF j \notin DOMAIN jobs
            THEN out.code = 404 /\ out.db = DB
            ELSE LET r == jobs[j]
                 IN  /\ out.code = 200
                     /\ j \notin DOMAIN out.db.jobs
                     /\ \A k \in DOMAIN jobs \ {j} :
                            k \in DOMAIN out.db.jobs /\ out.db.jobs[k] = jobs[k]
                     /\ ledger \subseteq out.db.ledger
                     /\ IF ImplicitDecline(r)
                        THEN /\ Pairs(out.db.ledger)
                                  = Pairs(ledger) \cup {<<RootOf(r), r.driver_id>>}
                             /\ RedistributedOnce(DB, out.db, r, out.redistributed)
                        ELSE /\ out.db.ledger = ledger
                             /\ DOMAIN out.db.jobs = DOMAIN jobs \ {j}
                             /\ out.redistributed = NULL

\* C12 witness: the table holds an accepted row with a pickup point whose
\* deletion offers the job to another driver, and a row without a pickup
\* point.
C12_Witness ==
    /\ \E j \in DOMAIN jobs :
          /\ ImplicitDecline(jobs[j])
          /\ delete_job(DB, drivers, now, j).redistributed # NULL
    /\ \E j \in DOMAIN jobs : jobs[j].status = "new" /\ jobs[j].pickup = NULL

\* max_age_sec, max_radius_km and offer_ttl_sec of a request: each given or
\* left to its default
OfferLimits == {<<0, 0, 0>>, <<60, 0, 60>>, <<0, 10, 60>>, <<60, 10, 0>>}

\* C13: send_job_auto_offer with no eligible driver answers 404 and leaves the
\* jobs table and the ledger alone; otherwise it answers 200 and inserts one
\* row: a new id, its own root, offered to a nearest eligible driver, with the
\* deadline now + ttl (a ttl of 0 counts as the default); the other rows and
\* the ledger are unchanged.
C13_FirstOfferOrNoCandidate ==
    \A b \in Bodies, in \in OfferLimits :
        LET a == in[1]
            rad == in[2]
            ttl == in[3]
            out == send_job_auto_offer(DB, drivers, now, b, a, rad, ttl)
            elig == Eligible(drivers, now, b.pickup,
                             IF a = 0 THEN DefaultMaxAge ELSE a,
                             IF rad = 0 THEN DefaultRadius ELSE rad, {})
            n == nextId
        IN  /\ out.db.ledger = ledger
            /\ \A k \in DOMAIN jobs :
                   k \in DOMAIN out.db.jobs /\ out.db.jobs[k] = jobs[k]
            /\ IF elig = {}
               THEN out.code = 404 /\ out.db.jobs = jobs
               ELSE /\ out.code = 200
                    /\ DOMAIN out.db.jobs = DOMAIN jobs \cup {n}
                    /\ n \notin DOMAIN history
                    /\ LET row == out.db.jobs[n]
                       IN  /\ row = [id |-> n, driver_id |-> row.driver_id,
                                     customer |-> b.customer, pickup |-> b.pickup,
                                     status |-> "offered",
                                     offer_expires_at |->
                                         now + (IF ttl = 0 THEN DefaultTtl ELSE ttl),
                                     root_job_id |-> n]
                           /\ row.driver_id \in elig
                           /\ \A e \in elig :
                                  DistanceKm(drivers, e, b.pickup)
                                    >= DistanceKm(drivers, row.driver_id, b.pickup)

\* C13 witness: the table holds rows and the ledger an entry; one request
\* finds two drivers at different distances and takes the nearer, which is not
\* the first in the table; another, with the short max_age_sec, finds none.
C13_Witness ==
    /\ jobs # <<>> /\ ledger # {}
    /\ \E b \in Bodies :
          LET out == send_job_auto_offer(DB, drivers, now, b, 0, 0, 60)
              elig == Eligible(drivers, now, b.pickup, DefaultMaxAge, DefaultRadius, {})
          IN  /\ out.code = 200
              /\ \E e \in elig :
                    /\ DistanceKm(drivers, e, b.pickup)
                         > DistanceKm(drivers, out.db.jobs[nextId].driver_id, b.pickup)
                    /\ DriverIndex(drivers, e)
                         < DriverIndex(drivers, out.db.jobs[nextId].driver_id)
    /\ \E b \in Bodies :
          /\ send_job_auto_offer(DB, drivers, now, b, 60, 0, 0).code = 404
          /\ Eligible(drivers, now, b.pickup, DefaultMaxAge, DefaultRadius, {}) # {}

\* C14: the ledger holds one entry per (root_job_id, driver_id), mark_declined
\* of a pair it holds changes nothing, and no step removes or rewrites an
\* entry.
C14_LedgerOnlyGrows ==
    /\ [](/\ \A e1 \in ledger, e2 \in ledger :
                (e1.root_job_id = e2.root_job_id /\ e1.driver_id = e2.driver_id)
                    => e1 = e2
          /\ \A e \in ledger :
                mark_declined(ledger, e.root_job_id, e.driver_id, now + 1) = ledger)
    /\ [][ledger \subseteq ledger']_vars

\* C14 witness: the ledger holds two entries of a root whose first row, the
\* row of one of the two drivers, has been deleted.
C14_Witness ==
    \E e \in ledger, f \in ledger :
        /\ e # f /\ e.root_job_id = f.root_job_id
        /\ e.root_job_id \in DOMAIN history \ DOMAIN jobs
        /\ history[e.root_job_id].driver_id = e.driver_id

\* C15: a row has a deadline exactly when its status is offered.
C15_DeadlineIffOffered ==
    \A j \in DOMAIN jobs :
        (jobs[j].offer_expires_at # NULL) <=> (jobs[j].status = "offered")

\* C15 witness: a declined row and an accepted row of one chain, and a row
\* create_job made.
C15_Witness ==
    /\ \E j \in DOMAIN jobs : jobs[j].status = "declined"
    /\ \E j \in DOMAIN jobs : /\ <<"accept_offer", j>> \in done
                              /\ jobs[j].status = "new"
    /\ \E j \in DOMAIN jobs : jobs[j].status = "new" /\ jobs[j].pickup = NULL

\* the drivers table with no token registered
NoTokens(drv) == [i \in 1..Len(drv) |-> [drv[i] EXCEPT !.expo_push_token = NoToken]]

\* the responses of the requests that notify, in the current state, with the
\* drivers table drv and the notification ending as post
NotifyingRequests(drv, post) ==
    [create_job |->
        [d \in Drivers |-> Notified(create_job(DB, d, "c1", now), DB, drv, post)],
     send_job_auto_offer |->
        [b \in Bodies |->
            Notified(send_job_auto_offer(DB, drv, now, b, 0, 0, 0), DB, drv, post)],
     decline_offer |->
        [j \in DOMAIN jobs |->
            Notified(decline_offer(DB, drv, now, j, jobs[j].driver_id), DB, drv, post)],
     get_offers |->
        [d \in Drivers |-> Notified(get_offers(DB, drv, now, d), DB, drv, post)],
     delete_job |->
        [j \in DOMAIN jobs |-> Notified(delete_job(DB, drv, now, j), DB, drv, post)]]

OnlyRow(drv, drv1, i, row) ==
    /\ Len(drv1) = (IF i > Len(drv) THEN Len(drv) + 1 ELSE Len(drv))
    /\ drv1[i] = row
    /\ \A k \in 1..Len(drv) : k # i => drv1[k] = drv[k]

\* C17: register_push_token changes only the token of a driver it knows, and
\* creates an unknown driver at position 0, offline, whom no selection picks
\* until update_location reports the driver online; update_location keeps the
\* token; neither touches another driver, the jobs table or the ledger.
C17_TokenAndPositionIndependent ==
    /\ [](/\ \A d \in Drivers, tok \in Tokens :
                LET new == UpsertToken(drivers, d, tok, now)
                    i == DriverIndex(drivers, d)
                IN  IF i # 0
                    THEN OnlyRow(drivers, new, i,
                                 [drivers[i] EXCEPT !.expo_push_token = tok])
                    ELSE /\ OnlyRow(drivers, new, Len(drivers) + 1,
                                    [id |-> d, pos |-> 0, status |-> "offline",
                                     updated_at |-> now, expo_push_token |-> tok])
                         /\ \A p \in Points :
                              /\ _pick_nearest_online_driver(new, now, p,
                                     DefaultMaxAge, DefaultRadius, {}).driver_id # d
                              /\ _pick_nearest_online_driver(
                                     UpsertLocation(new, d, p, "online", now), now, p,
                                     DefaultMaxAge, DefaultRadius,
                                     Drivers \ {d}).driver_id = d
          /\ \A r \in Reports :
                LET new == UpsertLocation(drivers, r.driver_id, r.pos, r.status, now)
                    i == DriverIndex(drivers, r.driver_id)
                    row == [id |-> r.driver_id, pos |-> r.pos, status |-> r.status,
                            updated_at |-> now,
                            expo_push_token |-> IF i = 0 THEN NoToken
                                                ELSE drivers[i].expo_push_token]
                IN  OnlyRow(drivers, new, IF i = 0 THEN Len(drivers) + 1 ELSE i, row))
    /\ [][drivers' # drivers => UNCHANGED <<jobs, ledger>>]_vars

\* C17 witness: with an offer in the table, a driver has a token and a
\* position away from 0, and another, made by register_push_token, is offline
\* at 0 with a token.
C17_Witness ==
    /\ jobs # <<>>
    /\ \E i \in 1..Len(drivers), k \in 1..Len(drivers) :
          /\ drivers[i].expo_push_token # NoToken
          /\ drivers[i].status = "online" /\ drivers[i].pos # 0
          /\ drivers[k].expo_push_token # NoToken
          /\ drivers[k].status = "offline"

\* the elements of a sequence
Range(seq) == {seq[i] : i \in 1..Len(seq)}

\* C18: get_jobs returns, newest first, the rows of the driver in status new
\* (the one status besides offered and declined); an offered row is in
\* get_offers and not in get_jobs, and once accept_offer answers 200 it is in
\* get_jobs and not in get_offers.
C18_JobsExcludeOffers ==
    /\ \A d \in Drivers :
          LET listed == get_jobs(jobs, d)
          IN  /\ Range(listed) = {j \in DOMAIN jobs : /\ jobs[j].driver_id = d
                                                      /\ jobs[j].status = "new"}
              /\ \A i \in 1..Len(listed), k \in 1..Len(listed) :
                     i < k => listed[i] > listed[k]
    /\ \A j \in DOMAIN jobs :
          LET d == jobs[j].driver_id
              acc == accept_offer(DB, now, j, d)
          IN  jobs[j].status = "offered"
                => /\ j \notin Range(get_jobs(jobs, d))
                   /\ acc.code = 200
                        => /\ j \in Range(get_offers(DB, drivers, now, d).offers)
                           /\ j \in Range(get_jobs(acc.db.jobs, d))
                           /\ j \notin Range(get_offers(acc.db, drivers, now, d).offers)

\* C18 witness: a driver's list holds a row the driver accepted and, before
\* it, a newer row create_job made, while the chain's declined row is listed
\* for nobody.
C18_Witness ==
    \E j \in DOMAIN jobs, k \in DOMAIN jobs :
        /\ <<"accept_offer", j>> \in done
        /\ jobs[k].pickup = NULL
        /\ Len(get_jobs(jobs, jobs[j].driver_id)) = 2
        /\ get_jobs(jobs, jobs[j].driver_id) = <<k, j>>
        /\ \E x \in DOMAIN jobs : jobs[x].status = "declined"

\* the offered rows of driver d, and those of them past their deadline
OffersOf(d) == {j \in DOMAIN jobs : jobs[j].driver_id = d /\ jobs[j].status = "offered"}

ExpiredOffersOf(d) ==
    {j \in OffersOf(d) : is_offer_expired(jobs[j].offer_expires_at, now)}

\* C19: get_offers answers with the driver's offered rows whose deadline has
\* not passed, newest first.  Each of the driver's offered rows past its
\* deadline ends declined with no deadline and (root, driver) in the ledger,
\* and is redistributed once: one new row of its root for a nearest eligible
\* driver, none when nobody is eligible.  Nothing else changes: no other row,
\* no other ledger entry, no other new row.
C19_GetOffersLazyExpiry ==
    \A d \in Drivers :
        LET out == get_offers(DB, drivers, now, d)
            dead == ExpiredOffersOf(d)
            live == OffersOf(d) \ dead
        IN  /\ out.code = 200
            /\ Range(out.offers) = live
            /\ \A i \in 1..Len(out.offers), k \in 1..Len(out.offers) :
                   i < k => out.offers[i] > out.offers[k]
            /\ ledger \subseteq out.db.ledger
            /\ Pairs(out.db.ledger)
                 = Pairs(ledger) \cup {<<RootOf(jobs[j]), d>> : j \in dead}
            /\ \A k \in DOMAIN jobs \ dead :
                   k \in DOMAIN out.db.jobs /\ out.db.jobs[k] = jobs[k]
            /\ DOMAIN out.db.jobs \ DOMAIN jobs
                 = UNION {Children(out.db.history, j) : j \in dead}
            /\ \A j \in dead :
                 LET r == jobs[j]
                     elig == Eligible(drivers, now, r.pickup, DefaultMaxAge,
                                      DefaultRadius,
                                      DeclinedFor(ledger, RootOf(r)) \cup {d})
                     kids == Children(out.db.history, j) \ Children(history, j)
                 IN  /\ out.db.jobs[j] = [r EXCEPT !.status = "declined",
                                                   !.offer_expires_at = NULL]
                     /\ IF elig = {} THEN kids = {}
                        ELSE \E n \in kids :
                               LET row == out.db.jobs[n]
                               IN  /\ kids = {n}
                                   /\ n \notin DOMAIN jobs
                                   /\ row = [id |-> n, driver_id |-> row.driver_id,
                                             customer |-> r.customer,
                                             pickup |-> r.pickup,
                                             status |-> "offered",
                                             offer_expires_at |-> now + DefaultTtl,
                                             root_job_id |-> RootOf(r)]
                                   /\ row.driver_id \in elig
                                   /\ \A e \in elig :
                                          DistanceKm(drivers, e, r.pickup)
                                            >= DistanceKm(drivers, row.driver_id, r.pickup)

\* C19 witness: a driver holds two offers, one past its deadline and one not;
\* get_offers returns the one, and the other is redistributed to a driver who
\* is eligible.
C19_Witness ==
    \E d \in Drivers :
        LET out == get_offers(DB, drivers, now, d)
        IN  /\ Cardinality(OffersOf(d)) = 2
            /\ Cardinality(ExpiredOffersOf(d)) = 1
            /\ Len(out.offers) = 1
            /\ \E j \in ExpiredOffersOf(d) : Children(out.db.history, j) # {}

\* C20: a row with no parent is its own root; a row redistribution made has a
\* later id than its parent and the parent's root.  A step never changes the
\* root_job_id of a row it keeps, and a row it inserts has an unused id and
\* either no parent and its own id as root, or the root, customer and pickup
\* of its parent, a row of the table before the step.
C20_RootInherited ==
    /\ [](\A j \in DOMAIN jobs :
             /\ jobs[j].root_job_id = history[j].root_job_id
             /\ IF history[j].parent = 0
                THEN jobs[j].root_job_id = j
                ELSE /\ history[j].parent < j
                     /\ jobs[j].root_job_id
                          = history[history[j].parent].root_job_id)
    /\ [][/\ \A j \in DOMAIN jobs \cap DOMAIN jobs' :
                jobs'[j].root_job_id = jobs[j].root_job_id
          /\ \A n \in DOMAIN jobs' \ DOMAIN jobs :
                /\ n \notin DOMAIN history
                /\ IF history'[n].parent = 0
                   THEN jobs'[n].root_job_id = n
                   ELSE LET p == history'[n].parent
                        IN  /\ p \in DOMAIN jobs
                            /\ jobs'[n].root_job_id = jobs[p].root_job_id
                            /\ jobs'[n].customer = jobs[p].customer
                            /\ jobs'[n].pickup = jobs[p].pickup]_vars

\* C20 witness: the first row of a chain is deleted, and a row of the chain
\* that was redistributed from a later row carries the first row's id as root.
C20_Witness ==
    \E n \in DOMAIN jobs :
        /\ jobs[n].root_job_id \notin DOMAIN jobs
        /\ history[n].parent \notin {0, jobs[n].root_job_id}

\* ---------------------------------------------------------------- C21
\* The answers of accept_offer and decline_offer to one request, side by side
Decisions(j, d) ==
    {accept_offer(DB, now, j, d), decline_offer(DB, drivers, now, j, d)}

\* C21: accept_offer and decline_offer test, in this order, that the job
\* exists (404), that its status is offered (409) and that the driver of the
\* request is the driver of the row (403).  A request rejected for one of the
\* three reasons leaves the jobs table and the ledger as they were, and a
\* request of a driver other than the assignee never changes an offer, whether
\* or not its deadline has passed.
C21_RejectedDecisionChangesNothing ==
    \A j \in JobIds, d \in Drivers :
        \A out \in Decisions(j, d) :
            /\ j \notin DOMAIN jobs => out.code = 404
            /\ j \in DOMAIN jobs /\ jobs[j].status # "offered" => out.code = 409
            /\ j \in DOMAIN jobs /\ jobs[j].status = "offered"
                   /\ jobs[j].driver_id # d => out.code = 403
            /\ out.code \in {404, 409, 403} =>
                   /\ out.db.jobs = jobs
                   /\ out.db.ledger = ledger
                   /\ out.redistributed = NULL
            /\ j \in DOMAIN jobs /\ jobs[j].driver_id # d =>
                   /\ out.db = DB
                   /\ out.code \in {409, 403}

\* An offer past its deadline asked for by another registered driver, beside
\* a row already handled that is not the asker's either.
C21_Witness ==
    \E j, k \in DOMAIN jobs, d \in Registered(drivers) :
        /\ jobs[j].status = "offered"
        /\ is_offer_expired(jobs[j].offer_expires_at, now)
        /\ jobs[j].driver_id # d
        /\ accept_offer(DB, now, j, d).code = 403
        /\ jobs[k].status = "declined"
        /\ jobs[k].driver_id # d
        /\ decline_offer(DB, drivers, now, k, d).code = 409

\* ---------------------------------------------------------------- C22
\* the members of elig nearest to the pickup point
Nearest(drv, elig, pickup) ==
    {e \in elig : \A x \in elig : DistanceKm(drv, e, pickup) <= DistanceKm(drv, x, pickup)}

\* the drivers redistribution of row r may pick, given the ledger led
Candidates(led, drv, t, r) ==
    Nearest(drv, Eligible(drv, t, r.pickup, DefaultMaxAge, DefaultRadius,
                          DeclinedFor(led, RootOf(r))), r.pickup)

\* the offered rows of two different chains, each with a pickup point
OfferPairs ==
    {p \in (DOMAIN jobs) \X (DOMAIN jobs) :
        /\ jobs[p[1]].status = "offered" /\ jobs[p[2]].status = "offered"
        /\ RootOf(jobs[p[1]]) # RootOf(jobs[p[2]])
        /\ jobs[p[1]].pickup # NULL /\ jobs[p[2]].pickup # NULL}

\* the first of the pair declined by its driver, then the second by its driver
DeclineBoth(p) ==
    LET o1 == decline_offer(DB, drivers, now, p[1], jobs[p[1]].driver_id)
    IN  <<o1, decline_offer(o1.db, drivers, now, p[2], jobs[p[2]].driver_id)>>

\* C22: the selection of a driver does not look at the jobs table.  A first
\* offer goes to a nearest eligible driver whether or not that driver already
\* holds offered rows, which stay offered; and when the offered rows of two
\* different chains are declined one after the other, each is redistributed
\* to a nearest driver eligible for its own chain, the second also when that
\* driver has just been given the first: both new rows are then offered at
\* the same time.
C22_SelectionIgnoresJobs ==
    /\ \A b \in Bodies :
           LET out == send_job_auto_offer(DB, drivers, now, b, 0, 0, 0)
               near == Nearest(drivers, Eligible(drivers, now, b.pickup,
                                   DefaultMaxAge, DefaultRadius, {}), b.pickup)
           IN  /\ (out.code = 200) <=> (near # {})
               /\ out.code = 200 =>
                      /\ out.db.jobs[nextId].driver_id \in near
                      /\ out.db.jobs[nextId].status = "offered"
                      /\ \A k \in DOMAIN jobs : out.db.jobs[k] = jobs[k]
    /\ \A p \in OfferPairs :
           LET o == DeclineBoth(p)
               r1 == jobs[p[1]]
               r2 == jobs[p[2]]
               c1 == Candidates(ledger \cup {[root_job_id |-> RootOf(r1),
                                   driver_id |-> r1.driver_id, declined_at |-> now]},
                                drivers, now, r1)
               c2 == Candidates(ledger \cup {[root_job_id |-> RootOf(r2),
                                   driver_id |-> r2.driver_id, declined_at |-> now]},
                                drivers, now, r2)
           IN  /\ o[1].code = 200 /\ o[2].code = 200
               /\ (o[1].redistributed # NULL) <=> (c1 # {})
               /\ (o[2].redistributed # NULL) <=> (c2 # {})
               /\ o[1].redistributed # NULL =>
                      /\ o[2].db.jobs[o[1].redistributed].driver_id \in c1
                      /\ o[2].db.jobs[o[1].redistributed].status = "offered"
               /\ o[2].redistributed # NULL =>
                      /\ o[2].db.jobs[o[2].redistributed].driver_id \in c2
                      /\ o[2].db.jobs[o[2].redistributed].status = "offered"

\* One driver holds the offered rows of two chains, and both rows, declined
\* one after the other, are redistributed to one and the same other driver.
C22_Witness ==
    \E p \in OfferPairs :
        LET o == DeclineBoth(p)
        IN  /\ jobs[p[1]].driver_id = jobs[p[2]].driver_id
            /\ o[1].redistributed # NULL /\ o[2].redistributed # NULL
            /\ o[2].db.jobs[o[1].redistributed].driver_id
                   = o[2].db.jobs[o[2].redistributed].driver_id
            /\ o[2].db.jobs[o[1].redistributed].status = "offered"
            /\ o[2].db.jobs[o[2].redistributed].status = "offered"

\* ---------------------------------------------------------------- C23
\* the rows of jbs of chain root assigned to driver d
AssignedRows(jbs, root, d) ==
    {j \in DOMAIN jbs : RootOf(jbs[j]) = root /\ jbs[j].driver_id = d}

\* C23: when (root, driver) enters the ledger, the jobs table the request
\* found holds a row of that root assigned to that driver; so every entry of
\* the ledger names a driver to whom a row of its root was once assigned.
C23_LedgerNamesAssignedDriver ==
    /\ [](\A e \in ledger :
              \E j \in DOMAIN history : /\ history[j].root_job_id = e.root_job_id
                                        /\ history[j].driver_id = e.driver_id)
    /\ [][\A e \in ledger' \ ledger :
              AssignedRows(jobs, e.root_job_id, e.driver_id) # {}]_vars

\* The ledger holds entries of two chains, one of them recorded by delete_job:
\* the row of its driver is gone from the jobs table.
C23_Witness ==
    \E e \in ledger, f \in ledger :
        /\ e.root_job_id # f.root_job_id
        /\ AssignedRows(jobs, e.root_job_id, e.driver_id) = {}
        /\ AssignedRows(jobs, f.root_job_id, f.driver_id) # {}

\* ---------------------------------------------------------------- C24
\* the requests send_job_auto_offer may carry
OfferRequests ==
    [body : Bodies, max_age_sec : AgeInputs, max_radius_km : RadiusInputs,
     offer_ttl_sec : TtlInputs]

Ways == {"decline_offer", "get_offers", "delete_job"}

\* the moment at which row r, just offered at t, is given up in way w: at once,
\* or one second past its deadline for get_offers
GivenUpAt(w, r, t) == IF w = "get_offers" THEN r.offer_expires_at + 1 ELSE t

\* Row j of db, offered to driver d, given up in way w: declined by d, found
\* past its deadline by get_offers, or accepted by d and then deleted
GiveUp(w, db, drv, t, j, d) ==
    CASE w = "decline_offer" -> decline_offer(db, drv, t, j, d)
      [] w = "get_offers" -> get_offers(db, drv, GivenUpAt(w, db.jobs[j], t), d)
      [] w = "delete_job" -> delete_job(accept_offer(db, t, j, d).db, drv, t, j)

\* the rows inserted between db0 and db1
Inserted(db0, db1) == DOMAIN db1.history \ DOMAIN db0.history

\* The redistribution that took db0 to db1 at time t2, away from the drivers
\* in tried, used the limits 120 s, 50 km and 180 s: it inserted one offer
\* for a nearest driver seen within 120 s and within 50 km, with its deadline
\* 180 s later, or nothing when there is no such driver.
FixedLimits(db0, db1, drv, t2, pickup, tried) ==
    LET near == Nearest(drv, Eligible(drv, t2, pickup, 120, 50, tried), pickup)
        new == Inserted(db0, db1)
    IN  /\ (new # {}) <=> (near # {})
        /\ Cardinality(new) <= 1
        /\ \A n \in new : /\ db1.jobs[n].driver_id \in near
                           /\ db1.jobs[n].status = "offered"
                           /\ db1.jobs[n].offer_expires_at = t2 + 180

\* C24: whatever max_age_sec, max_radius_km and offer_ttl_sec the request of
\* send_job_auto_offer carried, the offer it created is redistributed (after
\* a decline, after get_offers found it past its deadline, after a delete of
\* the accepted row) with the limits 120 s, 50 km and 180 s, and so is the
\* offer that redistribution created when its driver declines in turn.
C24_RedistributionUsesFixedLimits ==
    \A q \in OfferRequests :
        LET sent == send_job_auto_offer(DB, drivers, now, q.body, q.max_age_sec,
                                        q.max_radius_km, q.offer_ttl_sec)
            j == nextId
        IN  sent.code = 200 =>
              \A w \in Ways :
                LET d == sent.db.jobs[j].driver_id
                    t2 == GivenUpAt(w, sent.db.jobs[j], now)
                    out == GiveUp(w, sent.db, drivers, now, j, d)
                IN  /\ FixedLimits(sent.db, out.db, drivers, t2, q.body.pickup, {d})
                    /\ \A n \in Inserted(sent.db, out.db) :
                          LET d2 == out.db.jobs[n].driver_id
                              again == decline_offer(out.db, drivers, t2, n, d2)
                          IN  FixedLimits(out.db, again.db, drivers, t2,
                                          q.body.pickup, {d, d2})

\* A request with max_radius_km 10, max_age_sec 60 and offer_ttl_sec 60 is
\* served by a driver at the pickup point seen just now; declined, the offer
\* goes to a driver 20 km away, last seen 120 s ago, with a deadline 180 s
\* ahead.
C24_Witness ==
    \E q \in OfferRequests :
        LET sent == send_job_auto_offer(DB, drivers, now, q.body, q.max_age_sec,
                                        q.max_radius_km, q.offer_ttl_sec)
        IN  /\ q.max_age_sec = 60 /\ q.max_radius_km = 10 /\ q.offer_ttl_sec = 60
            /\ sent.code = 200
            /\ sent.db.jobs[nextId].offer_expires_at = now + 60
            /\ LET d == sent.db.jobs[nextId].driver_id
                   out == GiveUp("decline_offer", sent.db, drivers, now, nextId, d)
               IN  \E n \in Inserted(sent.db, out.db) :
                      /\ DistanceKm(drivers, out.db.jobs[n].driver_id, q.body.pickup) > 10
                      /\ now - RowOf(drivers, out.db.jobs[n].driver_id).updated_at > 60
                      /\ out.db.jobs[n].offer_expires_at = now + 180

====
